---- MODULE Spec2Model ----
(***************************************************************************)
(* Model of the file downloader's task-processing core:                    *)
(*   TaskManager   (registry map guarded by a RWMutex, backed by storage)  *)
(*   TaskStorage   (one JSON record per task ID)                           *)
(*   WorkerPool    (buffered channel of DownloadTask, N worker goroutines, *)
(*                  context cancellation, sync.Once close, WaitGroup)      *)
(*   updateTaskProgress (progress / status aggregation)                    *)
(* Task objects live on a heap (obj) because the registry, the channel and *)
(* the workers all hold pointers to them; files are mutated in place by    *)
(* the workers without any lock, one field write per step.                 *)
(***************************************************************************)
EXTENDS Integers, Sequences, FiniteSets, TLC

\* ---------------------------------------------------------------- bounds
\* task objects allocated by CreateTask in one run
MaxTasks == 2
\* File objects allocated by the CreateTask calls of one run
MaxFiles == 2
\* URLs of the one request made while the pool is started and stopped
MaxBatch == 3
\* calls of WorkerPool.Start in one run
MaxStarts == 2
\* calls of WorkerPool.Stop in one run, each by a goroutine of its own
NumStoppers == 2
\* distinct readings of time.Now().UnixNano()
MaxClock == 2
\* runs of the process on one state directory
MaxRuns == 2

\* wp := NewWorkerPool(2, tm): the pool the repository's tests build
PoolSize == 2

Objs == 1..MaxTasks
IDs == 1..MaxClock
Goroutines == 1..(MaxStarts * PoolSize)
StopCallers == 1..NumStoppers

\* resp.ContentLength of a HEAD answer: -1 unknown, 0 empty, 2 = len("hi")
Sizes == {-1, 0, 2}

StatusPending == "pending"
StatusDownloading == "downloading"
StatusCompleted == "completed"
StatusFailed == "failed"

VARIABLES
  workers,   \* WorkerPool.workers, fixed by NewWorkerPool
  proc,      \* the process: which run it is and where main stands
  now,       \* the clock reading generateTaskID would get
  obj,       \* heap of domain.Task objects, by object
  tasks,     \* TaskManager.tasks: task ID -> object (0: no entry)
  stored,    \* TaskStorage: task ID -> record written by SaveTask
  cpc,       \* per object: where the request that creates it stands
  ci,        \* per object: ProcessFiles' loop index, and the taskID passed
  taskChan,  \* WorkerPool.taskChan contents
  closed,    \* taskChan has been closed
  ctxDone,   \* WorkerPool.ctx is cancelled
  onceDone,  \* WorkerPool.once has run
  wg,        \* WorkerPool.wg counter
  starts,    \* number of Start calls so far
  closes,    \* number of close(taskChan) executions so far
  wpc,       \* per goroutine: position in worker / processTask
  wunit,     \* per goroutine: the DownloadTask being processed
  wacc,      \* per goroutine: updateTaskProgress' locals
  spc,       \* per Stop caller: position in Stop
  panics     \* run-time panics raised so far

vars == <<workers, proc, now, obj, tasks, stored, cpc, ci, taskChan, closed, ctxDone, onceDone,
          wg, starts, closes, wpc, wunit, wacc, spc, panics>>

regVars == <<now, obj, tasks, stored, cpc, ci>>
poolVars == <<workers, proc, taskChan, closed, ctxDone, onceDone, wg, starts, closes, spc>>
workVars == <<wpc, wunit, wacc>>

\* make(chan DownloadTask, workers*2)
QueueCap == workers * 2

\* a File that is born completed
NewFileCompleted ==
  [URL |-> 0, Status |-> StatusCompleted, Size |-> 0, Downloaded |-> 0, Named |-> FALSE]

\* ---------------------------------------------------------------- data
\* domain.File; URL is the position of its URL in the request's list
NewFile == [URL |-> 0, Status |-> StatusPending, Size |-> 0, Downloaded |-> 0, Named |-> FALSE]

NoTask == [ID |-> 0, URLs |-> 0, Status |-> StatusPending, Progress |-> 0, Files |-> <<>>]

NoRecord == [ID |-> 0]

NoUnit == [TaskID |-> 0, o |-> 0, i |-> 0]

NoAcc == [task |-> 0, i |-> 0, totalSize |-> 0, downloaded |-> 0,
          allCompleted |-> TRUE, anyInProgress |-> FALSE, startedAllCompleted |-> FALSE]

\* the process before main has run: run is the number of the process run, pc
\* main's position, todo the tasks a loop of main has still to visit, err
\* whether main's last UpdateTask returned an error, srvErr what
\* server.Shutdown returned, saveErr whether saveAllTasks has logged a task
\* it failed to save
NoMain == [run |-> 1, pc |-> "none", todo |-> {}, err |-> FALSE, srvErr |-> FALSE,
           saveErr |-> FALSE]

\* the File a DownloadTask points to
FileOf(u) == obj[u.o].Files[u.i]

\* a write through task.File that reaches no file
SetFileNowhere(u, f) == obj

SetFile(u, f) == [obj EXCEPT ![u.o].Files[u.i] = f]

AllCompleted(files) == \A k \in 1..Len(files) : files[k].Status = StatusCompleted


\* how many File objects the run has allocated so far
RECURSIVE SumFiles(_)
SumFiles(S) == IF S = {} THEN 0
               ELSE LET o == CHOOSE x \in S : TRUE
                    IN Len(obj[o].Files) + SumFiles(S \ {o})

FilesAllocated == SumFiles(Objs)

\* ---------------------------------------------------------------- construction
\* NewTaskManager on an empty state directory
NewTaskManager ==
  /\ now = 1
  /\ obj = [o \in Objs |-> NoTask]
  /\ tasks = [t \in IDs |-> 0]
  /\ stored = [t \in IDs |-> NoRecord]
  /\ cpc = [o \in Objs |-> "new"]
  /\ ci = [o \in Objs |-> [TaskID |-> 0, i |-> 0]]

\* the WorkerPool struct NewWorkerPool(n, tm) returns, in a process whose main
\* has not run
NewPool(n) ==
  /\ workers = n
  /\ proc = NoMain
  /\ taskChan = <<>>
  /\ closed = FALSE
  /\ ctxDone = FALSE
  /\ onceDone = FALSE
  /\ wg = 0
  /\ starts = 0
  /\ closes = 0
  /\ spc = [s \in StopCallers |-> "idle"]
  /\ panics = {}

\* no worker goroutine has been started
NoWorkers ==
  /\ wpc = [g \in Goroutines |-> "none"]
  /\ wunit = [g \in Goroutines |-> NoUnit]
  /\ wacc = [g \in Goroutines |-> NoAcc]

\* NewTaskManager on an empty state directory, then NewWorkerPool(n, tm)
NewWorkerPool(n) == NewTaskManager /\ NewPool(n) /\ NoWorkers

Init == NewWorkerPool(PoolSize)

\* the clock moves on between two readings (or does not)
Tick ==
  /\ now < MaxClock
  /\ now' = now + 1
  /\ UNCHANGED <<obj, tasks, stored, cpc, ci, poolVars, workVars, panics>>

\* ---------------------------------------------------------------- TaskStorage
\* what json.MarshalIndent(task) writes
Record(t) == [ID |-> t.ID, URLs |-> t.URLs, Status |-> t.Status,
              Progress |-> t.Progress, Files |-> t.Files]

\* how a call of SaveTask can end: the file written; an error before the file
\* was touched (MkdirAll or the open fails); an error of os.WriteFile after it
\* has truncated the file
SaveOk == "ok"
SaveFailed == "failed"
SaveTorn == "torn"
SaveOutcomes == {SaveOk, SaveFailed, SaveTorn}

\* a file of the state directory that LoadTask cannot read or that
\* json.Unmarshal rejects
TornRecord == [ID |-> -1]

\* SaveTask: r is how MkdirAll / WriteFile end
SaveTask(st, t, r) ==
  IF r = SaveOk THEN [st EXCEPT ![t.ID] = Record(t)]
  ELSE IF r = SaveTorn THEN [st EXCEPT ![t.ID] = TornRecord]
  ELSE st

\* ---------------------------------------------------------------- TaskManager
\* generateTaskID: fmt.Sprintf("task_%d", time.Now().UnixNano())
generateTaskID == now

\* a CreateTask that builds no File for the last URL
NewTaskShort(id, n) ==
  [ID |-> id, URLs |-> n, Status |-> StatusPending, Progress |-> 0,
   Files |-> [k \in 1..(n - 1) |-> [NewFile EXCEPT !.URL = k]]]

\* CreateTask: the domain.Task it builds from a list of n URLs
NewTask(id, n) ==
  [ID |-> id, URLs |-> n, Status |-> StatusPending, Progress |-> 0,
   Files |-> [k \in 1..n |-> [NewFile EXCEPT !.URL = k]]]

\* CreateTask, up to the release of the registry lock: the task is built and
\* registered under the ID read from the clock
CreateRegister(o, n) ==
  /\ cpc[o] = "new"
  /\ \A p \in Objs : p < o => cpc[p] # "new"
  /\ obj' = [obj EXCEPT ![o] = NewTask(generateTaskID, n)]
  /\ tasks' = [tasks EXCEPT ![generateTaskID] = o]
  /\ cpc' = [cpc EXCEPT ![o] = "register"]
  /\ UNCHANGED <<now, stored, ci, poolVars, workVars, panics>>

\* a CreateTask that takes the task out of the registry again
AfterSaveErrorRemoves(reg, o) == [reg EXCEPT ![obj[o].ID] = 0]

\* what CreateTask does once storage.SaveTask has failed
AfterSaveError(reg, o) == reg

\* CreateTask, from storage.SaveTask to the return
CreateSave(o, r) ==
  /\ cpc[o] = "register"
  /\ stored' = SaveTask(stored, obj[o], r)
  /\ tasks' = IF r = SaveOk THEN tasks ELSE AfterSaveError(tasks, o)
  /\ cpc' = [cpc EXCEPT ![o] = IF r = SaveOk THEN "created" ELSE "createErr"]
  /\ UNCHANGED <<now, obj, ci, poolVars, workVars, panics>>

\* GetTask: the object registered under an ID (0: not found)
GetTask(id) == tasks[id]

\* UpdateTask: overwrite the registry entry, then storage.UpdateTask
UpdateTaskRegistry(reg, o, id) == [reg EXCEPT ![id] = o]

\* a Start that counts its workers and launches none
StartNobody(limit) ==
  /\ starts < limit
  /\ wg' = wg + workers
  /\ starts' = starts + 1
  /\ UNCHANGED <<workers, proc, regVars, taskChan, closed, ctxDone, onceDone, closes, wpc, wunit,
                 wacc, spc, panics>>

\* ---------------------------------------------------------------- WorkerPool
\* Start: wg.Add(1) and go wp.worker(i), workers times
Start(limit) ==
  /\ starts < limit
  /\ LET spawned == (starts * workers + 1)..((starts + 1) * workers)
     IN wpc' = [g \in Goroutines |-> IF g \in spawned THEN "select" ELSE wpc[g]]
  /\ wg' = wg + workers
  /\ starts' = starts + 1
  /\ UNCHANGED <<workers, proc, regVars, taskChan, closed, ctxDone, onceDone, closes, wunit, wacc, spc, panics>>

\* Stop, first statement: wp.cancel()
StopCancel(s) ==
  /\ spc[s] = "idle"
  /\ ctxDone' = TRUE
  /\ spc' = [spc EXCEPT ![s] = "once"]
  /\ UNCHANGED <<workers, proc, regVars, taskChan, closed, onceDone, wg, starts, closes, workVars, panics>>

\* a Once that does not remember it has run
OnceRunsAgain(done) == TRUE

\* sync.Once.Do: whether this call runs the function
OnceRuns(done) == ~done

\* Stop, second statement: wp.once.Do(func() { close(wp.taskChan) })
StopClose(s) ==
  /\ spc[s] = "once"
  /\ IF OnceRuns(onceDone)
       THEN /\ onceDone' = TRUE
            /\ closes' = closes + 1
            /\ closed' = TRUE
            /\ panics' = IF closed THEN panics \cup {"close of closed channel"} ELSE panics
       ELSE UNCHANGED <<onceDone, closes, closed, panics>>
  /\ spc' = [spc EXCEPT ![s] = "wait"]
  /\ UNCHANGED <<workers, proc, regVars, taskChan, ctxDone, wg, starts, workVars>>

\* a Wait that returns only while goroutines are left
WaitReturnsBusy(n) == n > 0

\* sync.WaitGroup.Wait returns when the counter is zero
WaitReturns(n) == n = 0

\* Stop, third statement: wp.wg.Wait()
StopWait(s) ==
  /\ spc[s] = "wait"
  /\ WaitReturns(wg)
  /\ spc' = [spc EXCEPT ![s] = "returned"]
  /\ UNCHANGED <<workers, proc, regVars, taskChan, closed, ctxDone, onceDone, wg, starts, closes, workVars, panics>>

\* a select whose send never finds the buffer full
AddTaskCasesUnbounded(q, isClosed, done) ==
  (IF isClosed THEN {"panic"} ELSE {"send"}) \cup (IF done THEN {"reject"} ELSE {})

\* the cases of AddTask's select that can proceed; a send on a closed channel
\* proceeds by panicking, and default is taken only when no other case can
AddTaskCases(q, isClosed, done) ==
  LET ready == (IF isClosed THEN {"panic"}
                ELSE IF Len(q) < QueueCap THEN {"send"} ELSE {})
               \cup (IF done THEN {"reject"} ELSE {})
  IN IF ready = {} THEN {"drop"} ELSE ready

\* a channel that hands out the unit sent last first
EnqueueFront(q, u) == <<u>> \o q

\* wp.taskChan <- task: a buffered channel queues what is sent behind what it
\* holds
Enqueue(q, u) == Append(q, u)

\* AddTask(DownloadTask{File: &files[i], TaskID: taskID})
AddTask(u, c) ==
  /\ c \in AddTaskCases(taskChan, closed, ctxDone)
  /\ taskChan' = IF c = "send" THEN Enqueue(taskChan, u) ELSE taskChan
  /\ panics' = IF c = "panic" THEN panics \cup {"send on closed channel"} ELSE panics

\* ProcessFiles(taskID, files) is entered: the handler passes task.ID and
\* task.Files, the tests pass the ID of a registered task and files of their own
ProcessFilesBegin(o, id) ==
  /\ cpc[o] = "created"
  /\ id = obj[o].ID \/ tasks[id] # 0
  /\ cpc' = [cpc EXCEPT ![o] = IF obj[o].URLs = 0 THEN "done" ELSE "submit"]
  /\ ci' = [ci EXCEPT ![o] = [TaskID |-> id, i |-> 1]]
  /\ UNCHANGED <<now, obj, tasks, stored, poolVars, workVars, panics>>

\* one iteration of ProcessFiles' loop; a panic ends the calling goroutine
ProcessFilesStep(o, c) ==
  /\ cpc[o] = "submit"
  /\ AddTask([TaskID |-> ci[o].TaskID, o |-> o, i |-> ci[o].i], c)
  /\ cpc' = [cpc EXCEPT ![o] = IF c = "panic" THEN "panicked"
                               ELSE IF ci[o].i = Len(obj[o].Files) THEN "done"
                               ELSE "submit"]
  /\ ci' = [ci EXCEPT ![o].i = IF c = "panic" THEN @ ELSE @ + 1]
  /\ UNCHANGED <<workers, proc, now, obj, tasks, stored, closed, ctxDone, onceDone, wg, starts,
                 closes, spc, workVars>>


\* ---------------------------------------------------------------- worker
\* worker's select, case task, ok := <-wp.taskChan with ok true
WorkerReceive(g) ==
  /\ wpc[g] = "select"
  /\ Len(taskChan) > 0
  /\ wunit' = [wunit EXCEPT ![g] = Head(taskChan)]
  /\ taskChan' = Tail(taskChan)
  /\ wpc' = [wpc EXCEPT ![g] = "mark"]
  /\ UNCHANGED <<workers, proc, regVars, closed, ctxDone, onceDone, wg, starts, closes, spc, wacc, panics>>

\* worker's select, the receive with ok false: the channel is closed and drained
WorkerChannelClosed(g) ==
  /\ wpc[g] = "select"
  /\ closed /\ Len(taskChan) = 0
  /\ wpc' = [wpc EXCEPT ![g] = "exited"]
  /\ wg' = wg - 1
  /\ UNCHANGED <<workers, proc, regVars, taskChan, closed, ctxDone, onceDone, starts, closes, spc, wunit, wacc, panics>>

\* worker's select, case <-wp.ctx.Done()
WorkerCancelled(g) ==
  /\ wpc[g] = "select"
  /\ ctxDone
  /\ wpc' = [wpc EXCEPT ![g] = "exited"]
  /\ wg' = wg - 1
  /\ UNCHANGED <<workers, proc, regVars, taskChan, closed, ctxDone, onceDone, starts, closes, spc, wunit, wacc, panics>>

\* a processTask that goes on to updateTaskProgress from every exit
GoAggregate(g) ==
  /\ wpc' = [wpc EXCEPT ![g] = "aggregate"]
  /\ UNCHANGED <<wunit, wacc>>

\* a processTask whose return ends the worker goroutine
EndWorker(g) ==
  /\ wpc' = [wpc EXCEPT ![g] = "exited"]
  /\ wunit' = [wunit EXCEPT ![g] = NoUnit]
  /\ wacc' = [wacc EXCEPT ![g] = NoAcc]

\* processTask returns to the worker's loop
BackToSelect(g) ==
  /\ wpc' = [wpc EXCEPT ![g] = "select"]
  /\ wunit' = [wunit EXCEPT ![g] = NoUnit]
  /\ wacc' = [wacc EXCEPT ![g] = NoAcc]

\* processTask: file.Status = domain.StatusDownloading
MarkDownloading(g) ==
  /\ wpc[g] = "mark"
  /\ obj' = SetFile(wunit[g], [FileOf(wunit[g]) EXCEPT !.Status = StatusDownloading])
  /\ wpc' = [wpc EXCEPT ![g] = "probe"]
  /\ UNCHANGED <<now, tasks, stored, cpc, ci, poolVars, wunit, wacc, panics>>

\* processTask: GetFileSize; r is what it returns, (0, err) or (ContentLength, nil)
Probe(g, r) ==
  /\ wpc[g] = "probe"
  /\ IF r.err
       THEN /\ obj' = SetFile(wunit[g], [FileOf(wunit[g]) EXCEPT !.Status = StatusFailed])
            /\ BackToSelect(g)
       ELSE /\ obj' = SetFile(wunit[g], [FileOf(wunit[g]) EXCEPT !.Size = r.size])
            /\ wpc' = [wpc EXCEPT ![g] = "fetch"]
            /\ UNCHANGED <<wunit, wacc>>
  /\ UNCHANGED <<now, tasks, stored, cpc, ci, poolVars, panics>>

\* processTask: DownloadFile, then file.Status = failed or completed
Fetch(g, ok) ==
  /\ wpc[g] = "fetch"
  /\ IF ok
       THEN /\ obj' = SetFile(wunit[g], [FileOf(wunit[g]) EXCEPT !.Status = StatusCompleted])
            /\ wpc' = [wpc EXCEPT ![g] = "downloaded"]
            /\ UNCHANGED <<wunit, wacc>>
       ELSE /\ obj' = SetFile(wunit[g], [FileOf(wunit[g]) EXCEPT !.Status = StatusFailed])
            /\ BackToSelect(g)
  /\ UNCHANGED <<now, tasks, stored, cpc, ci, poolVars, panics>>

\* processTask: file.Downloaded = file.Size
SetDownloaded(g) ==
  /\ wpc[g] = "downloaded"
  /\ obj' = SetFile(wunit[g], [FileOf(wunit[g]) EXCEPT !.Downloaded = FileOf(wunit[g]).Size])
  /\ wpc' = [wpc EXCEPT ![g] = "filename"]
  /\ UNCHANGED <<now, tasks, stored, cpc, ci, poolVars, wunit, wacc, panics>>

\* processTask: file.Filename = savedName
SetFilename(g) ==
  /\ wpc[g] = "filename"
  /\ obj' = SetFile(wunit[g], [FileOf(wunit[g]) EXCEPT !.Named = TRUE])
  /\ wpc' = [wpc EXCEPT ![g] = "aggregate"]
  /\ UNCHANGED <<now, tasks, stored, cpc, ci, poolVars, wunit, wacc, panics>>

\* ---------------------------------------------------------------- updateTaskProgress
\* int(x) of a quotient: truncation toward zero (den > 0)
TruncDiv(num, den) == IF num >= 0 THEN num \div den ELSE -((-num) \div den)

\* the operands (num, den) with 0 <= num <= den <= 100 on which the float64
\* product num / den * 100 falls just below the integer part of the exact
\* quotient: 29.0 / 50.0 * 100 is 57.99999999999999
PercentShort == {<<29, 50>>, <<29, 100>>, <<57, 100>>, <<58, 100>>}

\* int(float64(num) / float64(den) * 100), for 0 <= num <= den <= 100 and
\* for |num| <= 22: float64 division, float64 multiplication, truncation
Percent(num, den) ==
  IF <<num, den>> \in PercentShort THEN TruncDiv(100 * num, den) - 1
  ELSE TruncDiv(100 * num, den)

CountCompleted(files) == Cardinality({k \in 1..Len(files) : files[k].Status = StatusCompleted})

\* the value task.Progress gets: by bytes when totalSize > 0, else by count of
\* completed files, and left as it was for a task without files
ComputeProgress(old, files, totalSize, downloaded) ==
  IF totalSize > 0 THEN Percent(downloaded, totalSize)
  ELSE IF Len(files) > 0 THEN Percent(CountCompleted(files), Len(files))
  ELSE old

\* a switch that reports a task without progress as failed
DeriveStatusFailed(allCompleted, anyInProgress, progress) ==
  IF allCompleted THEN StatusCompleted
  ELSE IF anyInProgress THEN StatusDownloading
  ELSE IF progress > 0 THEN StatusDownloading
  ELSE StatusFailed

\* a switch without the rule "progress > 0 is downloading"
DeriveStatusNoProgress(allCompleted, anyInProgress, progress) ==
  IF allCompleted THEN StatusCompleted
  ELSE IF anyInProgress THEN StatusDownloading
  ELSE StatusPending

\* the switch that derives task.Status
DeriveStatus(allCompleted, anyInProgress, progress) ==
  IF allCompleted THEN StatusCompleted
  ELSE IF anyInProgress THEN StatusDownloading
  ELSE IF progress > 0 THEN StatusDownloading
  ELSE StatusPending

\* updateTaskProgress: wp.tm.GetTask(taskID); without an entry it returns
AggregateBegin(g) ==
  /\ wpc[g] = "aggregate"
  /\ LET t == GetTask(wunit[g].TaskID)
     IN IF t = 0
          THEN BackToSelect(g)
          ELSE /\ wacc' = [wacc EXCEPT ![g] =
                     [NoAcc EXCEPT !.task = t, !.i = 1,
                        !.startedAllCompleted = (Len(obj[t].Files) > 0 /\ AllCompleted(obj[t].Files))]]
               /\ wpc' = [wpc EXCEPT ![g] = IF Len(obj[t].Files) = 0 THEN "derive" ELSE "sum"]
               /\ UNCHANGED wunit
  /\ UNCHANGED <<regVars, poolVars, panics>>

\* updateTaskProgress: one iteration of the loop over task.Files
AggregateFile(g) ==
  /\ wpc[g] = "sum"
  /\ LET a == wacc[g]
         f == obj[a.task].Files[a.i]
     IN /\ wacc' = [wacc EXCEPT ![g] =
              [a EXCEPT !.i = a.i + 1,
                        !.totalSize = a.totalSize + f.Size,
                        !.downloaded = a.downloaded + f.Downloaded,
                        !.allCompleted = a.allCompleted /\ f.Status = StatusCompleted,
                        !.anyInProgress = a.anyInProgress \/ f.Status = StatusDownloading]]
        /\ wpc' = [wpc EXCEPT ![g] = IF a.i = Len(obj[a.task].Files) THEN "derive" ELSE "sum"]
  /\ UNCHANGED <<regVars, poolVars, wunit, panics>>

\* updateTaskProgress: task.Progress, task.Status, then wp.tm.UpdateTask(task)
\* whose storage error is dropped
AggregateFinish(g, r) ==
  /\ wpc[g] = "derive"
  /\ LET a == wacc[g]
         t == obj[a.task]
         p == ComputeProgress(t.Progress, t.Files, a.totalSize, a.downloaded)
         u == [t EXCEPT !.Progress = p,
                        !.Status = DeriveStatus(a.allCompleted, a.anyInProgress, p)]
     IN /\ obj' = [obj EXCEPT ![a.task] = u]
        /\ tasks' = UpdateTaskRegistry(tasks, a.task, u.ID)
        /\ stored' = SaveTask(stored, u, r)
  /\ BackToSelect(g)
  /\ UNCHANGED <<now, cpc, ci, poolVars, panics>>

\* ---------------------------------------------------------------- specification
ProbeResults == {[err |-> TRUE, size |-> 0]} \cup {[err |-> FALSE, size |-> z] : z \in Sizes}

\* a request: CreateTask(urls) with one of N URL counts, whose SaveTask
\* succeeds as one of OK says, then ProcessFiles
Request(o, N, OK) ==
  \/ \E n \in N : CreateRegister(o, n)
  \/ \E r \in OK : CreateSave(o, r)
  \/ \E id \in IDs : ProcessFilesBegin(o, id)
  \/ \E c \in {"send", "panic", "reject", "drop"} : ProcessFilesStep(o, c)

\* a caller of Stop
Stop(s) ==
  \/ StopCancel(s)
  \/ StopClose(s)
  \/ StopWait(s)

\* a worker goroutine: the select loop and processTask, the network answering
\* a probe with one of P and a fetch as one of F says, storage.UpdateTask
\* succeeding as one of OK says
Worker(g, P, F, OK) ==
  \/ WorkerReceive(g)
  \/ MarkDownloading(g)
  \/ \E r \in P : Probe(g, r)
  \/ \E ok \in F : Fetch(g, ok)
  \/ SetDownloaded(g)
  \/ SetFilename(g)
  \/ AggregateBegin(g)
  \/ AggregateFile(g)
  \/ \E r \in OK : AggregateFinish(g, r)

\* a worker goroutine leaves its loop, which takes a call of Stop
WorkerExit(g) ==
  \/ WorkerChannelClosed(g)
  \/ WorkerCancelled(g)

\* the service while it runs: requests come in and the workers of one Start
\* process them
Next ==
  \/ Tick
  \/ \E o \in Objs : Request(o, 0..(MaxFiles - FilesAllocated), SaveOutcomes)
  \/ Start(1)
  \/ \E g \in Goroutines : Worker(g, ProbeResults, BOOLEAN, SaveOutcomes)

Spec == Init /\ [][Next]_vars

\* the pool's life cycle: Start and Stop called in any order and concurrently,
\* around one request
NextPool ==
  \/ Request(1, 1..MaxBatch, {SaveOk})
  \/ Start(MaxStarts)
  \/ \E s \in StopCallers : Stop(s)
  \/ \E g \in Goroutines : Worker(g, {r \in ProbeResults : r.size = 0}, BOOLEAN, {SaveOk})
  \/ \E g \in Goroutines : WorkerExit(g)

SpecPool == NewWorkerPool(1) /\ [][NextPool]_vars


\* the Go scheduler runs every runnable goroutine and every network call
\* returns: a worker that can take a step takes one
FairWorkers ==
  \A g \in Goroutines :
    WF_vars(Worker(g, {r \in ProbeResults : r.size = 0}, BOOLEAN, {SaveOk}) \/ WorkerExit(g))

\* the pool's life cycle with workers that keep running
SpecPoolFair == SpecPool /\ FairWorkers

\* a started pool that is not stopped, around one request: the queue of a
\* one-worker pool takes two units, so a longer request has units dropped
NextServe ==
  \/ Request(1, 1..MaxBatch, {SaveOk})
  \/ Start(1)
  \/ \E g \in Goroutines :
       Worker(g, {r \in ProbeResults : r.size \in {0, 2}}, BOOLEAN, {SaveOk, SaveFailed})

\* the same with workers that keep running: the Go scheduler runs every
\* runnable goroutine and every network call returns
SpecServe ==
  /\ NewWorkerPool(1)
  /\ [][NextServe]_vars
  /\ \A g \in Goroutines :
       WF_vars(Worker(g, {r \in ProbeResults : r.size \in {0, 2}}, BOOLEAN, {SaveOk, SaveFailed}))

\* the scenario of two URLs [A, B] on a pool of two workers: A answers 200
\* with the body "hi", B answers with a non-200 status
AnswerFor(g) == IF wunit[g].i = 1 THEN {[err |-> FALSE, size |-> 2]}
                ELSE {[err |-> TRUE, size |-> 0]}

NextAB ==
  \/ Request(1, {2}, SaveOutcomes)
  \/ Start(1)
  \/ \E g \in Goroutines : Worker(g, AnswerFor(g), {TRUE}, SaveOutcomes)

SpecAB == Init /\ [][NextAB]_vars

\* ---------------------------------------------------------------- one pass
\* Content-Length of the files of a task whose progress is counted in bytes
FileSizes == {0, 21, 29}

\* the states the k-th file of a task can be in while another file's pass
\* runs: not yet taken, size not yet or already probed, failed before or
\* after the probe, completed with Downloaded and Filename not yet or
\* already written
FileStates(k) ==
  {[NewFile EXCEPT !.URL = k]}
    \cup {[NewFile EXCEPT !.URL = k, !.Status = st, !.Size = z] :
            st \in {StatusDownloading, StatusFailed}, z \in FileSizes}
    \cup {[NewFile EXCEPT !.URL = k, !.Status = StatusCompleted, !.Size = z] : z \in FileSizes}
    \cup {[URL |-> k, Status |-> StatusCompleted, Size |-> z, Downloaded |-> z, Named |-> TRUE] :
            z \in FileSizes}

\* the lists of n files whose first file has just been completed
FileLists(n) ==
  {fs \in [1..n -> UNION {FileStates(k) : k \in 1..n}] :
     /\ \A k \in 1..n : fs[k] \in FileStates(k)
     /\ fs[1].Status = StatusCompleted /\ fs[1].Named}

\* processTask has completed the first file of a task and calls
\* updateTaskProgress
InitProgress ==
  /\ workers = 1
  /\ proc = NoMain
  /\ now = 1
  /\ \E n \in 1..MaxFiles : \E fs \in FileLists(n) :
       obj = [o \in Objs |-> IF o = 1 THEN [NewTask(1, n) EXCEPT !.Files = fs] ELSE NoTask]
  /\ tasks = [t \in IDs |-> IF t = 1 THEN 1 ELSE 0]
  /\ stored = [t \in IDs |-> IF t = 1 THEN Record(NewTask(1, obj[1].URLs)) ELSE NoRecord]
  /\ cpc = [o \in Objs |-> IF o = 1 THEN "done" ELSE "new"]
  /\ ci = [o \in Objs |-> IF o = 1 THEN [TaskID |-> 1, i |-> obj[1].URLs + 1]
                          ELSE [TaskID |-> 0, i |-> 0]]
  /\ taskChan = <<>>
  /\ closed = FALSE
  /\ ctxDone = FALSE
  /\ onceDone = FALSE
  /\ wg = 1
  /\ starts = 1
  /\ closes = 0
  /\ wpc = [g \in Goroutines |-> IF g = 1 THEN "aggregate" ELSE "none"]
  /\ wunit = [g \in Goroutines |-> IF g = 1 THEN [TaskID |-> 1, o |-> 1, i |-> 1] ELSE NoUnit]
  /\ wacc = [g \in Goroutines |-> NoAcc]
  /\ spc = [s \in StopCallers |-> "idle"]
  /\ panics = {}

\* updateTaskProgress, run by the one worker
NextProgress ==
  \/ AggregateBegin(1)
  \/ AggregateFile(1)
  \/ AggregateFinish(1, SaveOk)

SpecProgress == InitProgress /\ [][NextProgress]_vars

\* ---------------------------------------------------------------- main
\* everything but the process record
procOnly == <<workers, now, obj, tasks, stored, cpc, ci, taskChan, closed, ctxDone,
              onceDone, wg, starts, closes, wpc, wunit, wacc, spc, panics>>

\* a LoadAllTasks that gives up the whole batch on the first bad record
LoadableAllOrNothing(st) ==
  IF \E id \in IDs : st[id] = TornRecord THEN {}
  ELSE {id \in IDs : st[id] # NoRecord}

\* LoadAllTasks: the records of the state directory that LoadTask can read
Loadable(st) == {id \in IDs : st[id] # NoRecord /\ st[id] # TornRecord}

\* json.Unmarshal of a record into a domain.Task
TaskOf(rec) == [ID |-> rec.ID, URLs |-> rec.URLs, Status |-> rec.Status,
                Progress |-> rec.Progress, Files |-> rec.Files]

\* main: NewTaskManager, whose loadExistingTasks fills the registry from the
\* state directory (the task of ID id is allocated as object id), and
\* NewWorkerPool
LoadExistingTasks ==
  /\ proc.pc = "none"
  /\ obj' = [o \in Objs |-> IF o \in Loadable(stored) THEN TaskOf(stored[o]) ELSE NoTask]
  /\ tasks' = [id \in IDs |-> IF id \in Loadable(stored) THEN id ELSE 0]
  /\ cpc' = [o \in Objs |-> IF o \in Loadable(stored) THEN "loaded" ELSE "new"]
  /\ proc' = [proc EXCEPT !.pc = "pool"]
  /\ UNCHANGED <<workers, now, stored, ci, taskChan, closed, ctxDone, onceDone, wg, starts,
                 closes, workVars, spc, panics>>

\* a GetAllTasks that returns an empty map
GetNoTasks == {}

\* GetAllTasks: the IDs of the copy of the registry map it returns
GetAllTasks == {id \in IDs : tasks[id] # 0}

\* main: workerPool.Start() has returned, RecoverIncompleteTasks is entered
RecoverBegin ==
  /\ proc.pc = "pool"
  /\ starts = 1
  /\ proc' = [proc EXCEPT !.pc = "recover", !.todo = GetAllTasks]
  /\ UNCHANGED procOnly

\* a recovery that resets every task
NeedsRecoveryAlways(status) == TRUE

\* RecoverIncompleteTasks: the test on task.Status
NeedsRecovery(status) == status \in {StatusPending, StatusDownloading}

\* an inner loop that leaves failed files as they are
ResetFileKeepFailed(f) ==
  IF f.Status \notin {StatusCompleted, StatusFailed}
    THEN [f EXCEPT !.Status = StatusPending, !.Downloaded = 0]
    ELSE f

\* RecoverIncompleteTasks: what its inner loop does to one file
ResetFile(f) ==
  IF f.Status # StatusCompleted
    THEN [f EXCEPT !.Status = StatusPending, !.Downloaded = 0]
    ELSE f

\* RecoverIncompleteTasks: one iteration of the loop over the tasks (a Go map
\* is ranged over in any order); r is how the SaveTask of UpdateTask ends
RecoverTask(id, r) ==
  /\ proc.pc = "recover"
  /\ id \in proc.todo
  /\ LET o == tasks[id]
         t == obj[o]
         u == [t EXCEPT !.Status = StatusPending, !.Progress = 0,
                        !.Files = [k \in 1..Len(t.Files) |-> ResetFile(t.Files[k])]]
     IN IF NeedsRecovery(t.Status)
          THEN /\ obj' = [obj EXCEPT ![o] = u]
               /\ tasks' = UpdateTaskRegistry(tasks, o, u.ID)
               /\ stored' = SaveTask(stored, u, r)
               /\ proc' = [proc EXCEPT !.todo = @ \ {id}, !.err = (r # SaveOk)]
          ELSE /\ r = SaveOk
               /\ proc' = [proc EXCEPT !.todo = @ \ {id}]
               /\ UNCHANGED <<obj, tasks, stored>>
  /\ UNCHANGED <<workers, now, cpc, ci, taskChan, closed, ctxDone, onceDone, wg, starts,
                 closes, workVars, spc, panics>>

\* main: RecoverIncompleteTasks returns, the handler, the server and the
\* GracefulShutdown are built, graceful.Start() is entered
RecoverEnd ==
  /\ proc.pc = "recover"
  /\ proc.todo = {}
  /\ proc' = [proc EXCEPT !.pc = "graceful"]
  /\ UNCHANGED procOnly

\* GracefulShutdown.Start: gs.workerPool.Start() has returned, the goroutine of
\* server.ListenAndServe is started
Listen ==
  /\ proc.pc = "graceful"
  /\ starts = 2
  /\ proc' = [proc EXCEPT !.pc = "serving"]
  /\ UNCHANGED procOnly

\* a server that takes requests from the start of the process
ServerAcceptsEarly(pc) == TRUE

\* whether the HTTP server takes a new request: from ListenAndServe until
\* server.Shutdown closes the listener
ServerAccepts(pc) == pc \in {"serving", "signalled"}

\* waitForSignals: SIGINT or SIGTERM arrives
Signal ==
  /\ proc.pc = "serving"
  /\ proc' = [proc EXCEPT !.pc = "signalled"]
  /\ UNCHANGED procOnly

\* a handler of the server is running
HandlerInFlight == \E o \in Objs : cpc[o] \in {"register", "created", "submit"}

\* a shutdown that gives up when server.Shutdown fails
ReturnOnShutdownError(err) == IF err THEN "returned" ELSE "stop"

\* shutdown: what follows server.Shutdown, whose error is only logged
AfterServerShutdown(err) == "stop"

\* shutdown: server.Shutdown(ctx) returns nil once no handler is running, or
\* the context's error when the 30 seconds pass with a handler still running
ServerShutdown(err) ==
  /\ proc.pc = "signalled"
  /\ err = HandlerInFlight
  /\ proc' = [proc EXCEPT !.pc = AfterServerShutdown(err), !.srvErr = err]
  /\ UNCHANGED procOnly

\* shutdown: gs.workerPool.Stop() has returned, saveAllTasks is entered
FlushBegin ==
  /\ proc.pc = "stop"
  /\ spc[1] = "returned"
  /\ proc' = [proc EXCEPT !.pc = "flush", !.todo = GetAllTasks, !.saveErr = FALSE]
  /\ UNCHANGED procOnly

\* saveAllTasks: one iteration, gs.taskManager.UpdateTask(task)
FlushTask(id, r) ==
  /\ proc.pc = "flush"
  /\ id \in proc.todo
  /\ tasks' = UpdateTaskRegistry(tasks, tasks[id], obj[tasks[id]].ID)
  /\ stored' = SaveTask(stored, obj[tasks[id]], r)
  /\ proc' = [proc EXCEPT !.todo = @ \ {id}, !.err = (r # SaveOk),
                          !.saveErr = (@ \/ r # SaveOk)]
  /\ UNCHANGED <<workers, now, obj, cpc, ci, taskChan, closed, ctxDone, onceDone, wg,
                 starts, closes, workVars, spc, panics>>

\* shutdown: saveAllTasks returns, gs.wg.Wait() returns because ListenAndServe
\* has returned, and Start returns to main
FlushEnd ==
  /\ proc.pc = "flush"
  /\ proc.todo = {}
  /\ proc' = [proc EXCEPT !.pc = "returned"]
  /\ UNCHANGED procOnly

\* the process ends (main returns, or the process is killed at any point) and
\* is started again on the same state directory, at a later clock reading
Restart ==
  /\ proc.run < MaxRuns
  /\ now < MaxClock
  /\ proc' = [NoMain EXCEPT !.run = proc.run + 1]
  /\ now' = now + 1
  /\ obj' = [o \in Objs |-> NoTask]
  /\ tasks' = [t \in IDs |-> 0]
  /\ cpc' = [o \in Objs |-> "new"]
  /\ ci' = [o \in Objs |-> [TaskID |-> 0, i |-> 0]]
  /\ taskChan' = <<>>
  /\ closed' = FALSE
  /\ ctxDone' = FALSE
  /\ onceDone' = FALSE
  /\ wg' = 0
  /\ starts' = 0
  /\ closes' = 0
  /\ wpc' = [g \in Goroutines |-> "none"]
  /\ wunit' = [g \in Goroutines |-> NoUnit]
  /\ wacc' = [g \in Goroutines |-> NoAcc]
  /\ spc' = [s \in StopCallers |-> "idle"]
  /\ panics' = {}
  /\ UNCHANGED <<workers, stored>>

\* a request to the handler: CreateTask rejects an empty URL list, creates the
\* task and hands task.ID and task.Files to ProcessFiles; requests arrive at
\* distinct clock readings
Handler(o) ==
  \/ /\ ServerAccepts(proc.pc)
     /\ tasks[now] = 0
     /\ \E n \in 1..(MaxFiles - FilesAllocated) : CreateRegister(o, n)
  \/ \E r \in {SaveOk, SaveFailed} : CreateSave(o, r)
  \/ ProcessFilesBegin(o, obj[o].ID)
  \/ \E c \in {"send", "panic", "reject", "drop"} : ProcessFilesStep(o, c)

\* main from its start to the return of graceful.Start
Main ==
  \/ LoadExistingTasks
  \/ proc.pc = "pool" /\ starts = 0 /\ Start(MaxStarts)
  \/ RecoverBegin
  \/ \E id \in IDs : \E r \in {SaveOk, SaveFailed} : RecoverTask(id, r)
  \/ RecoverEnd
  \/ proc.pc = "graceful" /\ starts = 1 /\ Start(MaxStarts)
  \/ Listen
  \/ Signal
  \/ \E err \in BOOLEAN : ServerShutdown(err)
  \/ proc.pc = "stop" /\ Stop(1)
  \/ FlushBegin
  \/ \E id \in IDs : \E r \in SaveOutcomes : FlushTask(id, r)
  \/ FlushEnd

\* the life of the service: main, the requests it serves, its workers, and the
\* next run of the process
NextLife ==
  \/ Main
  \/ \E o \in Objs : Handler(o)
  \/ \E g \in Goroutines :
       Worker(g, {r \in ProbeResults : r.size \in {0, 2}}, BOOLEAN, {SaveOk, SaveFailed})
  \/ \E g \in Goroutines : WorkerExit(g)
  \/ Restart

SpecLife == NewWorkerPool(1) /\ [][NextLife]_vars

\* ---------------------------------------------------------------- start-up
\* a task of n files as a run can leave it: the first k files completed with
\* z bytes each, the others pending, status and progress as the pass after
\* the k-th completion wrote them
LeftTask(id, n, k, z) ==
  LET fs == [j \in 1..n |->
               IF j <= k THEN [URL |-> j, Status |-> StatusCompleted, Size |-> z,
                               Downloaded |-> z, Named |-> TRUE]
               ELSE [NewFile EXCEPT !.URL = j]]
      p == IF k = 0 THEN 0 ELSE ComputeProgress(0, fs, k * z, k * z)
  IN [ID |-> id, URLs |-> n, Status |-> DeriveStatus(k = n, FALSE, p), Progress |-> p,
      Files |-> fs]

\* what the state directory can hold for one task ID: no file, a file that
\* cannot be read or parsed, or the record of a task
FilesFor(id) ==
  {NoRecord, TornRecord}
    \cup UNION {{Record(LeftTask(id, n, k, z)) : k \in 0..n, z \in FileSizes} :
                 n \in 1..MaxFiles}

\* the process starts on a state directory left by earlier runs
InitLoad ==
  /\ NewPool(1)
  /\ NoWorkers
  /\ now = MaxClock
  /\ obj = [o \in Objs |-> NoTask]
  /\ tasks = [t \in IDs |-> 0]
  /\ stored \in {st \in [IDs -> UNION {FilesFor(id) : id \in IDs}] :
                   \A id \in IDs : st[id] \in FilesFor(id)}
  /\ cpc = [o \in Objs |-> "new"]
  /\ ci = [o \in Objs |-> [TaskID |-> 0, i |-> 0]]

\* NewTaskManager on that directory
SpecLoad == InitLoad /\ [][LoadExistingTasks]_vars

\* ---------------------------------------------------------------- claims
\* a step of the request of o that is one call of AddTask
SubmitStep(o) == cpc[o] = "submit" /\ (cpc'[o] # cpc[o] \/ ci'[o] # ci[o])

\* a step of goroutine g that ends an aggregation pass (the write of
\* task.Progress and task.Status and the call of UpdateTask)
PassEnds(g) == wpc[g] = "derive" /\ wpc'[g] = "select"

\* C1: when SaveTask fails in CreateTask, the error is returned and the task is
\* not left in the registry: GetTask(id) does not return it.
C1_FailedCreateNotRegistered ==
  \A o \in Objs : cpc[o] = "createErr" => GetTask(obj[o].ID) # o

\* C2: AddTask never raises an error (in Go: never panics), and when the queue
\* is full the unit is dropped: the queue and every file are left as they were.
C2_SubmitNeverFails ==
  [][\A o \in Objs : SubmitStep(o) =>
        /\ panics' = panics
        /\ Len(taskChan) = QueueCap => (taskChan' = taskChan /\ obj' = obj)]_vars

\* C3: once the context is cancelled, every AddTask is rejected: the unit is not
\* enqueued and the call returns without a panic.
C3_NoSubmitAfterCancel ==
  [][\A o \in Objs : (SubmitStep(o) /\ ctxDone) =>
        (taskChan' = taskChan /\ panics' = panics)]_vars

\* C4: with concurrent calls of Stop the channel is closed exactly once, no
\* call panics on the close, and a call returns only when the channel has been
\* closed and every worker goroutine has exited.
C4_ConcurrentStop ==
  [][/\ closes' <= 1
     /\ "close of closed channel" \notin panics'
     /\ \A s \in StopCallers : (spc[s] = "wait" /\ spc'[s] = "returned") =>
           (closes = 1 /\ \A g \in Goroutines : wpc[g] \in {"none", "exited"})]_vars

\* C4 witness: all Stop calls are inside wg.Wait at once, the channel closed by
\* one of them, workers still running
C4_Witness ==
  /\ \A s \in StopCallers : spc[s] = "wait"
  /\ closes = 1
  /\ wg > 0

\* C5: a pool can be restarted: the workers spawned by a Start that follows a
\* Stop stay in their loop, so a worker leaves its loop only while a call of
\* Stop is in progress.
C5_RestartedWorkersStay ==
  [][\A g \in Goroutines : (wpc[g] = "select" /\ wpc'[g] = "exited") =>
        \E s \in StopCallers : spc[s] \in {"once", "wait"}]_vars

\* C6: on a pool that was never started, Stop runs to its end: a call that has
\* reached wg.Wait can return at once (it does not block) and the close does
\* not panic.
C6_StopBeforeStart ==
  starts = 0 =>
    /\ \A s \in StopCallers : spc[s] = "wait" => ENABLED StopWait(s)
    /\ "close of closed channel" \notin panics

\* C6 witness: a Stop call has returned on a pool that was never started
C6_Witness == starts = 0 /\ \E s \in StopCallers : spc[s] = "returned"

\* C7: after every aggregation pass the task's progress is in 0..100.
C7_ProgressInRange ==
  \A o \in Objs : obj[o].Progress \in 0..100

\* C8: an aggregation pass that runs when every file of the task has status
\* completed sets progress to 100 and status to completed.
C8_AllCompletedGives100 ==
  [][\A g \in Goroutines : (PassEnds(g) /\ wacc[g].startedAllCompleted) =>
        /\ obj'[wacc[g].task].Progress = 100
        /\ obj'[wacc[g].task].Status = StatusCompleted]_vars

\* C9: an aggregation pass on a task without files leaves progress 0 and
\* status pending.
C9_NoFilesStaysPending ==
  [][\A g \in Goroutines : (PassEnds(g) /\ Len(obj[wacc[g].task].Files) = 0) =>
        /\ obj'[wacc[g].task].Progress = 0
        /\ obj'[wacc[g].task].Status = StatusPending]_vars

\* both units of the task of the scenario have been processed
BothProcessed ==
  /\ cpc[1] = "done"
  /\ taskChan = <<>>
  /\ \A g \in Goroutines : wpc[g] \in {"none", "select", "exited"}

\* C10: in the scenario [A, B], once both units have been processed, file A is
\* completed with size 2, file B is failed and the task is downloading.
C10_OneOfTwoFails ==
  BothProcessed =>
    /\ obj[1].Files[1].Status = StatusCompleted
    /\ obj[1].Files[1].Size = 2
    /\ obj[1].Files[2].Status = StatusFailed
    /\ obj[1].Status = StatusDownloading

\* C10 witness: both units processed, by two workers started after the submits
C10_Witness ==
  /\ BothProcessed
  /\ obj[1].Files[1].Status = StatusCompleted
  /\ obj[1].Files[2].Status = StatusFailed
  /\ obj[1].Status = StatusDownloading

\* C14: task IDs are collision-free: two CreateTask calls never produce the
\* same ID, even when both read the clock at the same reading.
C14_UniqueIDs ==
  \A o, p \in Objs :
    (o # p /\ cpc[o] # "new" /\ cpc[p] # "new") => obj[o].ID # obj[p].ID

\* C19: GetTask finds exactly the IDs of tasks that were loaded, successfully
\* created or passed to UpdateTask. UpdateTask is only ever called with a task
\* GetTask returned, so within a run that starts on an empty state directory an
\* ID that is found belongs to a task whose CreateTask succeeded (or has not
\* returned yet), and such a task is found.
C19_FoundExactly ==
  /\ \A id \in IDs : GetTask(id) # 0 =>
        \E o \in Objs : obj[o].ID = id /\ cpc[o] \notin {"new", "createErr"}
  /\ \A o \in Objs : cpc[o] \notin {"new", "createErr"} => GetTask(obj[o].ID) # 0

\* the sums updateTaskProgress' loop forms over the files as they are now
RECURSIVE SumSize(_)
SumSize(files) ==
  IF files = <<>> THEN 0 ELSE Head(files).Size + SumSize(Tail(files))

RECURSIVE SumDownloaded(_)
SumDownloaded(files) ==
  IF files = <<>> THEN 0 ELSE Head(files).Downloaded + SumDownloaded(Tail(files))

AnyInProgress(files) == \E k \in 1..Len(files) : files[k].Status = StatusDownloading

\* the task of object o has files, was submitted under its own ID, and no unit
\* of it is queued or being processed, nor is a pass over it under way
Quiescent(o) ==
  /\ cpc[o] = "done"
  /\ Len(obj[o].Files) > 0
  /\ ci[o].TaskID = obj[o].ID
  /\ GetTask(obj[o].ID) = o
  /\ \A k \in 1..Len(taskChan) : taskChan[k].o # o
  /\ \A g \in Goroutines : wunit[g].o # o /\ wacc[g].task # o

\* C20: whenever no unit of a task is queued or being processed, the task's
\* status and progress are what the aggregation rule computes from its files.
C20_StatusFollowsFiles ==
  \A o \in Objs : Quiescent(o) =>
    LET f == obj[o].Files
        p == ComputeProgress(obj[o].Progress, f, SumSize(f), SumDownloaded(f))
    IN /\ obj[o].Progress = p
       /\ obj[o].Status = DeriveStatus(AllCompleted(f), AnyInProgress(f), p)

\* ---------------------------------------------------------------- claims on main
\* unit (o, i) is in the queue or in the hands of a worker
InPool(o, i) ==
  \/ \E k \in 1..Len(taskChan) : taskChan[k].o = o /\ taskChan[k].i = i
  \/ \E g \in Goroutines : wunit[g].o = o /\ wunit[g].i = i

\* a step of RecoverIncompleteTasks' loop that visits the task of ID id
RecoverVisits(id) ==
  /\ proc.pc = "recover" /\ proc'.pc = "recover" /\ proc'.run = proc.run
  /\ id \in proc.todo /\ id \notin proc'.todo

\* C11: after a restart, recovery turns a failed file of a pending or
\* downloading task into a pending file with Downloaded 0, and by the time the
\* server listens every file recovery has reset has been handed to the pool
\* (unless the queue is full).
C11_FailedFilesResubmitted ==
  [][/\ \A id \in IDs : RecoverVisits(id) =>
          LET o == tasks[id]
          IN \A k \in 1..Len(obj[o].Files) :
               (NeedsRecovery(obj[o].Status) /\ obj[o].Files[k].Status = StatusFailed) =>
                  /\ obj'[o].Files[k].Status = StatusPending
                  /\ obj'[o].Files[k].Downloaded = 0
     /\ (proc.pc = "graceful" /\ proc'.pc = "serving") =>
          \A o \in Objs : (cpc[o] = "loaded" /\ NeedsRecovery(obj[o].Status)) =>
             \A k \in 1..Len(obj[o].Files) :
                obj[o].Files[k].Status # StatusCompleted =>
                   (InPool(o, k) \/ Len(taskChan) = QueueCap)]_vars

\* C12: recovery on a task that is completed is a no-op: no file, status or
\* progress changes and nothing is written to the store.
C12_RecoveryOfCompletedIsNoOp ==
  [][\A id \in IDs :
        (RecoverVisits(id) /\ obj[tasks[id]].Status = StatusCompleted) =>
           (obj' = obj /\ tasks' = tasks /\ stored' = stored)]_vars

\* C12 witness: in the second run recovery has visited a loaded task that is
\* completed, all its files completed
C12_Witness ==
  /\ proc.run = 2
  /\ proc.pc = "recover"
  /\ \E o \in Objs :
       /\ cpc[o] = "loaded"
       /\ obj[o].ID \notin proc.todo
       /\ obj[o].Status = StatusCompleted
       /\ Len(obj[o].Files) > 0
       /\ AllCompleted(obj[o].Files)

\* C13: CreateTask builds, for a list of n URLs (n = 0 included), a pending
\* task of progress 0 with one pending file per URL in the same order; and the
\* number of files equals the number of URLs for every task of the registry
\* and every record of the store, whatever workers, recovery and updates do.
C13_OneFilePerURL ==
  /\ \A n \in 0..MaxBatch :
       LET t == NewTask(1, n)
       IN /\ t.Status = StatusPending /\ t.Progress = 0
          /\ Len(t.Files) = n /\ t.URLs = n
          /\ \A k \in 1..n : t.Files[k].URL = k /\ t.Files[k].Status = StatusPending
  /\ \A o \in Objs : cpc[o] # "new" =>
       /\ Len(obj[o].Files) = obj[o].URLs
       /\ \A k \in 1..Len(obj[o].Files) : obj[o].Files[k].URL = k
  /\ \A id \in Loadable(stored) : Len(stored[id].Files) = stored[id].URLs

\* C13 witness: a task of two files that was processed in the first run, loaded
\* and reset by recovery in the second, is being flushed at shutdown
C13_Witness ==
  /\ proc.run = 2
  /\ proc.pc = "flush"
  /\ \E o \in Objs :
       /\ cpc[o] = "loaded"
       /\ obj[o].URLs = 2
       /\ obj[o].Status = StatusPending
       /\ obj[o].Files[1].Status = StatusCompleted
       /\ obj[o].Files[2].Status = StatusPending

\* the worker goroutines that are alive
LiveWorkers == {g \in Goroutines : wpc[g] \notin {"none", "exited"}}

\* C15: over the whole life of the process there are never more than N live
\* workers, hence never more than N units being processed at once.
C15_AtMostNWorkers ==
  /\ Cardinality(LiveWorkers) <= workers
  /\ Cardinality({g \in Goroutines : wunit[g] # NoUnit}) <= workers

\* C16: shutdown is ordered: Stop begins only after server.Shutdown has
\* returned, the flush begins only after Stop has returned with every worker
\* gone, control returns only after the flush has visited every task, and
\* server.Shutdown is followed by Stop whether or not it failed.
C16_ShutdownOrdered ==
  [][/\ (spc[1] = "idle" /\ spc'[1] = "once") => proc.pc = "stop"
     /\ (proc.pc # "flush" /\ proc'.pc = "flush") =>
          (spc[1] = "returned" /\ \A g \in Goroutines : wpc[g] \in {"none", "exited"})
     /\ (proc.pc # "returned" /\ proc'.pc = "returned") =>
          (proc.pc = "flush" /\ proc.todo = {})
     /\ (proc.pc = "signalled" /\ proc'.pc # "signalled" /\ proc'.run = proc.run) =>
          proc'.pc = "stop"]_vars

\* C16 witness: shutdown has returned although server.Shutdown and the last
\* write of the flush both failed
C16_Witness ==
  /\ proc.pc = "returned"
  /\ proc.srvErr
  /\ proc.err
  /\ GetAllTasks # {}

\* C17: recovery runs when the registry holds every readable record and ends
\* before the server takes a request: while it runs no handler is running, the
\* queue is empty and no worker is processing a file.
C17_RecoveryBeforeRequests ==
  proc.pc = "recover" =>
    /\ \A id \in Loadable(stored) : GetTask(id) # 0
    /\ ~HandlerInFlight
    /\ taskChan = <<>>
    /\ \A g \in Goroutines : wpc[g] \in {"none", "select"}

\* C17 witness: in the second run, with the workers started and waiting,
\* recovery has reset a loaded task of two files, one of them completed
C17_Witness ==
  /\ proc.run = 2
  /\ proc.pc = "recover"
  /\ \E g \in Goroutines : wpc[g] = "select"
  /\ \E o \in Objs :
       /\ cpc[o] = "loaded"
       /\ obj[o].ID \notin proc.todo
       /\ obj[o].Status = StatusPending
       /\ Len(obj[o].Files) = 2
       /\ obj[o].Files[1].Status = StatusPending
       /\ obj[o].Files[2].Status = StatusCompleted

\* C18: when the SaveTask of UpdateTask fails, the error is returned, the
\* registry holds the task, and the stored record keeps its previous content.
C18_FailedUpdateKeepsRecord ==
  [][\A id \in IDs :
        (proc.pc = "flush" /\ proc'.pc = "flush" /\ id \in proc.todo
           /\ id \notin proc'.todo /\ proc'.err) =>
           /\ GetTask(id)' = GetTask(id) /\ GetTask(id)' # 0
           /\ stored'[id] = stored[id]]_vars

\* every file of a task has failed
AllFailed(files) == \A k \in 1..Len(files) : files[k].Status = StatusFailed

\* C21: the pass that ends writes the status its reads of the files give, in
\* priority order: completed when it read every file as completed, else
\* downloading when it read a file as downloading, else downloading when the
\* progress it wrote is above 0, else pending; it never writes failed, and a
\* task whose files have all failed, none read as downloading, with progress
\* 0, gets pending.
C21_StatusPriority ==
  [][\A g \in Goroutines : PassEnds(g) =>
        LET a == wacc[g]
            u == obj'[a.task]
        IN /\ u.Status = (IF a.allCompleted THEN StatusCompleted
                          ELSE IF a.anyInProgress THEN StatusDownloading
                          ELSE IF u.Progress > 0 THEN StatusDownloading
                          ELSE StatusPending)
           /\ u.Status # StatusFailed
           /\ (Len(u.Files) > 0 /\ AllFailed(u.Files) /\ ~a.anyInProgress /\ u.Progress = 0)
                => u.Status = StatusPending]_vars

\* a pass has stored a task whose files have all failed: pending, progress 0
C21_Witness ==
  \E id \in IDs :
    /\ stored[id] \notin {NoRecord, TornRecord}
    /\ Len(stored[id].Files) > 0
    /\ AllFailed(stored[id].Files)
    /\ stored[id].Status = StatusPending
    /\ stored[id].Progress = 0

\* C22: the pass that ends writes progress floor(100 * sum(downloaded) /
\* sum(size)) when the sum of the sizes of the task's files is above 0, and
\* floor(100 * count(completed) / count(files)) otherwise.
C22_ProgressIsFloor ==
  [][\A g \in Goroutines : PassEnds(g) =>
        LET files == obj[wacc[g].task].Files
            p == obj'[wacc[g].task].Progress
        IN IF SumSize(files) > 0
             THEN p = (100 * SumDownloaded(files)) \div SumSize(files)
             ELSE Len(files) > 0 => p = (100 * CountCompleted(files)) \div Len(files)]_vars

\* the file the unit of goroutine g points to, after the step
FileAfter(g) == obj'[wunit[g].o].Files[wunit[g].i]

\* C23: processing one unit follows a fixed sequence: the file is marked
\* downloading; a failed probe marks it failed and ends the processing
\* without a fetch; a failed fetch marks it failed and ends the processing;
\* otherwise the file is marked completed, then downloaded is set to size,
\* then the filename is set, and only then does the worker re-aggregate the
\* owning task and hand it to UpdateTask.
C23_ProcessingSequence ==
  [][\A g \in Goroutines :
        /\ (wpc[g] = "mark" /\ wpc'[g] # "mark") =>
              wpc'[g] = "probe" /\ FileAfter(g).Status = StatusDownloading
        /\ (wpc[g] = "probe" /\ wpc'[g] # "probe") =>
              \/ wpc'[g] = "select" /\ FileAfter(g).Status = StatusFailed
              \/ wpc'[g] = "fetch" /\ FileAfter(g).Status = StatusDownloading
        /\ (wpc[g] = "fetch" /\ wpc'[g] # "fetch") =>
              \/ wpc'[g] = "select" /\ FileAfter(g).Status = StatusFailed
              \/ wpc'[g] = "downloaded" /\ FileAfter(g).Status = StatusCompleted
        /\ (wpc[g] = "downloaded" /\ wpc'[g] # "downloaded") =>
              wpc'[g] = "filename" /\ FileAfter(g).Downloaded = FileAfter(g).Size
        /\ (wpc[g] # "aggregate" /\ wpc'[g] = "aggregate") =>
              /\ wpc[g] = "filename"
              /\ FileAfter(g) = [FileOf(wunit[g]) EXCEPT !.Named = TRUE]
              /\ FileAfter(g).Status = StatusCompleted
              /\ FileAfter(g).Downloaded = FileAfter(g).Size
        /\ (wpc[g] \notin {"sum", "derive"} /\ wpc'[g] \in {"sum", "derive"}) =>
              wpc[g] = "aggregate"
        /\ PassEnds(g) =>
              /\ tasks'[obj'[wacc[g].task].ID] = wacc[g].task
              /\ stored'[obj'[wacc[g].task].ID] \in
                   {Record(obj'[wacc[g].task]), TornRecord, stored[obj'[wacc[g].task].ID]}]_vars

\* a worker has completed a file of 2 bytes and is about to re-aggregate its
\* task, whose other file has failed
C23_Witness ==
  \E g \in Goroutines :
    /\ wpc[g] = "aggregate"
    /\ FileOf(wunit[g]).Status = StatusCompleted
    /\ FileOf(wunit[g]).Size = 2
    /\ FileOf(wunit[g]).Downloaded = 2
    /\ FileOf(wunit[g]).Named
    /\ \E k \in 1..Len(obj[wunit[g].o].Files) : obj[wunit[g].o].Files[k].Status = StatusFailed

\* a step of the run that follows its start-up (the load of the state
\* directory and the recovery pass belong to the restart)
RunStep ==
  /\ proc'.run = proc.run
  /\ proc.pc # "none"
  /\ ~(proc.pc = "recover" /\ proc'.todo # proc.todo)

\* C24: within one process run, after its start-up, a file's status moves
\* only from pending to downloading and from downloading to completed or
\* failed; a worker takes only pending files from the queue, so a file that
\* reached completed or failed is not processed again.
C24_FileStatusMoves ==
  [][RunStep =>
       /\ \A o \in Objs : \A k \in 1..Len(obj[o].Files) :
            /\ k <= Len(obj'[o].Files)
            /\ LET a == obj[o].Files[k].Status
                   b == obj'[o].Files[k].Status
               IN a # b => \/ a = StatusPending /\ b = StatusDownloading
                           \/ a = StatusDownloading /\ b \in {StatusCompleted, StatusFailed}
       /\ \A g \in Goroutines :
            (wpc[g] = "select" /\ wpc'[g] = "mark") =>
               FileOf(Head(taskChan)).Status = StatusPending]_vars

\* a request of two files has been processed to the end: one file completed,
\* the other failed, the queue empty and every worker back at its select
C24_Witness ==
  /\ \E o \in Objs :
       /\ cpc[o] = "done"
       /\ Len(obj[o].Files) = 2
       /\ {obj[o].Files[1].Status, obj[o].Files[2].Status} = {StatusCompleted, StatusFailed}
  /\ taskChan = <<>>
  /\ \A g \in Goroutines : wpc[g] \in {"none", "select"}
  /\ proc.pc = "serving"

\* C25: recovery, visiting a task whose status is pending or downloading,
\* sets its status to pending and its progress to 0, sets each file that is
\* not completed (failed ones included) to pending with Downloaded 0 and
\* leaves each completed file as it is, keeps the registry entry and writes
\* the task to the store (unless the write fails, which is only logged);
\* visiting a task of another status it changes nothing.
C25_RecoveryResets ==
  [][\A id \in IDs : RecoverVisits(id) =>
        LET o == tasks[id]
            t == obj[o]
            u == obj'[o]
        IN IF t.Status \in {StatusPending, StatusDownloading}
             THEN /\ u.Status = StatusPending
                  /\ u.Progress = 0
                  /\ u.ID = t.ID /\ u.URLs = t.URLs
                  /\ Len(u.Files) = Len(t.Files)
                  /\ \A k \in 1..Len(t.Files) :
                       u.Files[k] = IF t.Files[k].Status = StatusCompleted THEN t.Files[k]
                                    ELSE [t.Files[k] EXCEPT !.Status = StatusPending,
                                                            !.Downloaded = 0]
                  /\ \A p \in Objs \ {o} : obj'[p] = obj[p]
                  /\ tasks' = tasks
                  /\ ~proc'.err => stored' = [stored EXCEPT ![id] = Record(u)]
             ELSE obj' = obj /\ tasks' = tasks /\ stored' = stored]_vars

\* in the second run recovery has visited and stored a loaded task of two
\* files: the completed file is as it was, the file that had been probed and
\* then failed or was left downloading is pending with Downloaded 0
C25_Witness ==
  /\ proc.run = 2
  /\ proc.pc = "recover"
  /\ \E o \in Objs :
       /\ cpc[o] = "loaded"
       /\ obj[o].ID \notin proc.todo
       /\ obj[o].Status = StatusPending
       /\ obj[o].Progress = 0
       /\ stored[obj[o].ID] = Record(obj[o])
       /\ Len(obj[o].Files) = 2
       /\ \E k \in 1..2 :
            /\ obj[o].Files[k] = [URL |-> k, Status |-> StatusCompleted, Size |-> 2,
                                  Downloaded |-> 2, Named |-> TRUE]
            /\ obj[o].Files[3 - k].Status = StatusPending
            /\ obj[o].Files[3 - k].Size = 2
            /\ obj[o].Files[3 - k].Downloaded = 0

\* a call of Stop has been made
StopCalled == \E s \in StopCallers : spc[s] # "idle"

\* no worker goroutine is running
AllTerminated == \A g \in Goroutines : wpc[g] \in {"none", "exited"}

\* C26: a worker terminates only from its select, never in the middle of a
\* unit, and only because the queue is closed and drained or the context is
\* cancelled; and once Stop has been called, every worker goroutine
\* eventually has terminated (workers keep running, network calls return).
C26_WorkersTerminate ==
  /\ [][\A g \in Goroutines :
          (wpc[g] # "exited" /\ wpc'[g] = "exited") =>
             /\ wpc[g] = "select"
             /\ wunit[g] = NoUnit
             /\ (closed /\ taskChan = <<>>) \/ ctxDone]_vars
  /\ (StopCalled ~> AllTerminated)

\* Stop has returned, the workers of two Starts have terminated, and a file
\* was completed on the way
C26_Witness ==
  /\ \E s \in StopCallers : spc[s] = "returned"
  /\ starts = 2
  /\ AllTerminated
  /\ \E g \in Goroutines : wpc[g] = "exited"
  /\ \E k \in 1..Len(obj[1].Files) : obj[1].Files[k].Status = StatusCompleted

\* the registry entry of ID id and its stored record agree
InStore(id) == stored[id] = Record(obj[tasks[id]])

C28_QueueIsFIFO ==
  [][/\ \A o \in Objs : SubmitStep(o) =>
          LET u == [TaskID |-> ci[o].TaskID, o |-> o, i |-> ci[o].i]
          IN /\ u.i \in 1..Len(obj[o].Files)
             /\ taskChan' \in {taskChan, Append(taskChan, u)}
             /\ cpc'[o] # "panicked" =>
                  /\ ci'[o].i = ci[o].i + 1
                  /\ (cpc'[o] = "done") = (u.i = Len(obj[o].Files))
     /\ \A g \in Goroutines : (wpc[g] = "select" /\ wpc'[g] = "mark") =>
          /\ wunit'[g] = Head(taskChan)
          /\ taskChan' = Tail(taskChan)
          /\ wunit'[g].i \in 1..Len(obj[wunit'[g].o].Files)
     /\ taskChan' # taskChan =>
          \/ \E o \in Objs : SubmitStep(o) /\ Len(taskChan') = Len(taskChan) + 1
          \/ \E g \in Goroutines : wpc[g] = "select" /\ wpc'[g] = "mark"]_vars

\* a worker has taken the unit of the first file of a task while the unit of
\* its second file, accepted after it, waits in the queue
C28_Witness ==
  \E g \in Goroutines :
    /\ wunit[g].i = 1
    /\ wpc[g] = "mark"
    /\ Len(taskChan) = 1
    /\ taskChan[1].o = wunit[g].o
    /\ taskChan[1].i = 2

\* C29: within one process run no step takes a task out of the registry:
\* an ID for which GetTask has found a task keeps one, whatever CreateTask,
\* UpdateTask, ProcessFiles, the workers, recovery and the flush do.
C29_RegistryOnlyGrows ==
  [][proc'.run = proc.run =>
       \A id \in IDs : GetTask(id) # 0 => GetTask(id)' # 0]_vars

\* shutdown has returned in the second run with two tasks in the registry,
\* one loaded from the store and one whose creation failed to save
C29_Witness ==
  /\ proc.run = 2
  /\ proc.pc = "returned"
  /\ \E o, p \in Objs :
       /\ cpc[o] = "loaded" /\ GetTask(obj[o].ID) = o
       /\ cpc[p] = "createErr" /\ GetTask(obj[p].ID) = p

\* C30: the load at start-up registers, under its task ID, the task of every
\* record of the state directory that can be read, with the fields of the
\* record; it skips each record that cannot be read or parsed and still
\* loads the others; on a state directory without records the registry is
\* empty and start-up goes on; the directory is left as it was.
C30_LoadAll ==
  [][(proc.pc = "none" /\ proc'.pc # "none") =>
        /\ proc'.pc = "pool"
        /\ stored' = stored
        /\ \A id \in IDs :
             IF stored[id] \in {NoRecord, TornRecord}
               THEN GetTask(id)' = 0
               ELSE /\ GetTask(id)' # 0
                    /\ obj'[GetTask(id)'].ID = id
                    /\ Record(obj'[GetTask(id)']) = stored[id]]_vars

\* the load has skipped a record that cannot be parsed and registered the
\* task of another record, a downloading task with a completed file
C30_Witness ==
  /\ proc.pc = "pool"
  /\ \E id, jd \in IDs :
       /\ stored[id] = TornRecord
       /\ GetTask(id) = 0
       /\ GetTask(jd) # 0
       /\ Record(obj[GetTask(jd)]) = stored[jd]
       /\ obj[GetTask(jd)].Status = StatusDownloading
       /\ obj[GetTask(jd)].Files[1].Status = StatusCompleted

\* C31: in every reachable state every file's downloaded is 0 or its size,
\* and every completed file has downloaded equal to its size.
C31_DownloadedZeroOrSize ==
  \A o \in Objs : \A k \in 1..Len(obj[o].Files) :
    LET f == obj[o].Files[k]
    IN /\ f.Downloaded \in {0, f.Size}
       /\ f.Status = StatusCompleted => f.Downloaded = f.Size

\* the unit of file i of object o waits in the queue
Queued(o, i) == \E k \in 1..Len(taskChan) : taskChan[k].o = o /\ taskChan[k].i = i

\* a worker holds the unit of file i of object o
Taken(o, i) == \E g \in Goroutines : wunit[g].o = o /\ wunit[g].i = i

\* file i of object o has reached completed or failed
Finished(o, i) ==
  /\ i <= Len(obj[o].Files)
  /\ obj[o].Files[i].Status \in {StatusCompleted, StatusFailed}

\* C32: while the pool is started (and not stopped), every unit accepted
\* into the queue is eventually taken by a worker, and the file of every
\* unit a worker has taken eventually reaches completed or failed (workers
\* keep running, network calls return).
C32_AcceptedUnitsFinish ==
  \A o \in Objs : \A i \in 1..MaxBatch :
    /\ (starts > 0 /\ Queued(o, i)) ~> Taken(o, i)
    /\ Taken(o, i) ~> Finished(o, i)

\* of a request of three files the pool accepted two units and dropped the
\* third; the two have been taken and finished, one failed and one completed,
\* and the queue is empty again
C32_Witness ==
  /\ starts > 0
  /\ taskChan = <<>>
  /\ cpc[1] = "done"
  /\ Len(obj[1].Files) = 3
  /\ \E i, j, k \in 1..3 :
       /\ obj[1].Files[i].Status = StatusFailed
       /\ obj[1].Files[j].Status = StatusCompleted /\ obj[1].Files[j].Named
       /\ obj[1].Files[k].Status = StatusPending
  /\ \A g \in Goroutines : wunit[g] = NoUnit

\* C33: the number of units waiting in the queue never exceeds twice the
\* worker count the pool was built with.
C33_QueueBounded == Len(taskChan) <= 2 * workers

\* the queue of the one-worker pool is full with two units and the third
\* unit of the request has been dropped
C33_Witness ==
  /\ Len(taskChan) = 2 * workers
  /\ starts = 0
  /\ cpc[1] = "done"
  /\ Len(obj[1].Files) = 3
  /\ ~closed /\ ~ctxDone

\* a task without its files
Header(t) == [ID |-> t.ID, URLs |-> t.URLs, Status |-> t.Status, Progress |-> t.Progress]

\* C34: a worker whose probe or fetch fails writes the status of its unit's
\* file and nothing else, and goes back to its select without a pass: the
\* task's status and progress, its other files, the other tasks, the
\* registry and the store are as they were; before that, the mark writes
\* the file's status and a successful probe the file's size, and nothing
\* else.
C34_FailureTouchesOnlyFile ==
  [][\A g \in Goroutines :
        (wpc[g] \in {"mark", "probe", "fetch"} /\ wpc'[g] # wpc[g]) =>
           LET u == wunit[g]
               f == FileOf(u)
               h == FileAfter(g)
           IN /\ h.Status = StatusFailed =>
                   /\ wpc'[g] = "select"
                   /\ h = [f EXCEPT !.Status = StatusFailed]
              /\ wpc[g] = "mark" => h = [f EXCEPT !.Status = StatusDownloading]
              /\ (wpc[g] = "probe" /\ h.Status # StatusFailed) =>
                   \E z \in Sizes : h = [f EXCEPT !.Size = z]
              /\ (wpc[g] \in {"mark", "probe"} \/ h.Status = StatusFailed) =>
                   /\ Header(obj'[u.o]) = Header(obj[u.o])
                   /\ \A k \in 1..Len(obj[u.o].Files) :
                        k # u.i => obj'[u.o].Files[k] = obj[u.o].Files[k]
                   /\ \A p \in Objs \ {u.o} : obj'[p] = obj[p]
                   /\ tasks' = tasks
                   /\ stored' = stored]_vars

\* one file of a task of two has failed after its probe gave it a size, the
\* other is still pending; the task and its record are as CreateTask left them
C34_Witness ==
  \E o \in Objs :
    /\ Len(obj[o].Files) = 2
    /\ obj[o].Files[1] = [URL |-> 1, Status |-> StatusFailed, Size |-> 2, Downloaded |-> 0,
                          Named |-> FALSE]
    /\ obj[o].Files[2] = [NewFile EXCEPT !.URL = 2]
    /\ obj[o].Status = StatusPending
    /\ obj[o].Progress = 0
    /\ stored[obj[o].ID] = Record(NewTask(obj[o].ID, 2))
    /\ \A g \in Goroutines : wunit[g].o # o

\* a call of Stop has returned
StopReturned == \E s \in StopCallers : spc[s] = "returned"

\* C35: once a call of Stop has returned no file is downloading, and from
\* then on no file changes (status, size and downloaded stay as they are).
C35_QuietAfterStop ==
  /\ [](StopReturned =>
          \A o \in Objs : \A k \in 1..Len(obj[o].Files) :
             obj[o].Files[k].Status # StatusDownloading)
  /\ [][StopReturned =>
          \A o \in Objs : \A k \in 1..Len(obj[o].Files) :
             obj'[o].Files[k] = obj[o].Files[k]]_vars

\* C36: within one process run the pass that ends never writes a progress
\* below the one the task had from the pass before.
C36_ProgressNeverDecreases ==
  [][\A g \in Goroutines : PassEnds(g) =>
        obj'[wacc[g].task].Progress >= obj[wacc[g].task].Progress]_vars

====
